---------------------------- MODULE Spec2Model ----------------------------
(***************************************************************************)
(* A model of src/src/PillSplitter.tsx: the pointer-gesture state machine   *)
(* of the PillSplitter component (press, move, release, click and the       *)
(* deferred reset of hasMoved) together with the split / nudge algorithm    *)
(* of handleClick.                                                          *)
(*                                                                          *)
(* React semantics kept by the model: a handler reads the state of the      *)
(* render it was created in (the unprimed variables) and its setState       *)
(* calls take effect together when it returns (the primed variables); the   *)
(* refs nextIdRef and hasMoved are ordinary mutable cells.  The host        *)
(* delivers one event at a time, a click right after the release of the     *)
(* same gesture (no timer callback runs between the two), and a timer       *)
(* callback at any later moment between two events.                         *)
(***************************************************************************)
EXTENDS Integers, Sequences, FiniteSets, TLC

(* ------------------------------ constants ------------------------------ *)

\* const MIN_SIZE = 40
MIN_SIZE == 40

\* const CORNER_RADIUS = "20px"
CORNER_RADIUS == "20px"

\* the entry of the palette the model draws (colors[0]); a color is copied
\* from pill to pill and never read, so the other five behave alike
colors == {"#ef4444"}

\* the draw threshold of handleMouseMove (> 5 on either axis)
DRAW_THRESHOLD == 5

\* the split margin of handleClick (splitX >= 20 && width - splitX >= 20)
SPLIT_MARGIN == 20

\* the nudge distance of handleClick (clickX + 10, clickX - width - 10)
NUDGE_GAP == 10

(* ------------------------------- bounds -------------------------------- *)

\* the number of pointer events (press, move, release, click) of a run
MaxEvents == 11

\* the surface-local coordinates a press or a move can carry
Points == {[x |-> 0, y |-> 0], [x |-> 5, y |-> 5], [x |-> 19, y |-> 50],
           [x |-> 20, y |-> 50], [x |-> 50, y |-> 50], [x |-> 100, y |-> 100]}

(* -------------------------------- state -------------------------------- *)

VARIABLES
    pills,        \* useState<Pill[]>([])
    currentPill,  \* useState<Pill | null>(null): the draft
    isDrawing,    \* useState(false)
    isDragging,   \* useState(false)
    draggedPill,  \* useState<Pill | null>(null)
    dragOffset,   \* useState({x: 0, y: 0})
    startPos,     \* useState({x: 0, y: 0})
    nextIdRef,    \* useRef(0)
    hasMoved,     \* useRef(false)
    timers,       \* the pending setTimeout callbacks of handleMouseUp
    phase,        \* the host's place in press, move*, release, click
    pointer,      \* the host's pointer position (that of the last press or move)
    events,       \* the number of pointer events handled so far
    gestureMoved, \* history: a handler set hasMoved to true since the last press
    stayedNear,   \* history: no move of the draw gesture left the pointer more
                  \* than 5 from startPos on an axis
    last          \* history: the last handler run and what it did

vars == <<pills, currentPill, isDrawing, isDragging, draggedPill,
          dragOffset, startPos, nextIdRef, hasMoved, timers, phase, pointer,
          events, gestureMoved, stayedNear, last>>

\* the value of a Pill | null state that holds no pill
null == [id |-> -1, x |-> 0, y |-> 0, width |-> 0, height |-> 0,
         color |-> "", borderRadius |-> ""]

Min(a, b) == IF a < b THEN a ELSE b
Max(a, b) == IF a > b THEN a ELSE b
Abs(a) == IF a < 0 THEN -a ELSE a

\* what the history variable holds after a handler that is not a click
Did(op) == [op |-> op, prev |-> <<>>, out |-> <<>>, x |-> 0, y |-> 0,
            gated |-> FALSE, committed |-> FALSE, draft |-> FALSE,
            startId |-> 0]


(* ------------------------------ geometry ------------------------------- *)

\* getMouseCoords: the event's client coordinates made surface-local; the
\* container's rectangle has its corner at the client origin in the model
getMouseCoords(e) == [x |-> e.x - 0, y |-> e.y - 0]

\* createPill, with the id it reads from nextIdRef passed in
createPill(id, x, y, width, height, color, borderRadius) ==
    [id |-> id, x |-> x, y |-> y, width |-> width, height |-> height,
     color |-> color, borderRadius |-> borderRadius]

\* crossesThreshold with a displacement of exactly 5 counted as crossing
crossesThreshold_atFive(x, y) ==
    \/ Abs(x - startPos.x) >= DRAW_THRESHOLD
    \/ Abs(y - startPos.y) >= DRAW_THRESHOLD

\* handleMouseMove: the threshold test of a move while a draft exists
crossesThreshold(x, y) ==
    \/ Abs(x - startPos.x) > DRAW_THRESHOLD
    \/ Abs(y - startPos.y) > DRAW_THRESHOLD

\* resizeDraft without the MIN_SIZE floor
resizeDraft_noFloor(prev, x, y) ==
    IF prev = null THEN prev
    ELSE [prev EXCEPT !.x = Min(startPos.x, x),
                      !.y = Min(startPos.y, y),
                      !.width = Abs(x - startPos.x),
                      !.height = Abs(y - startPos.y)]

\* handleMouseMove: the updater of setCurrentPill while drawing
resizeDraft(prev, x, y) ==
    IF prev = null THEN prev
    ELSE [prev EXCEPT !.x = Min(startPos.x, x),
                      !.y = Min(startPos.y, y),
                      !.width = Max(Abs(x - startPos.x), MIN_SIZE),
                      !.height = Max(Abs(y - startPos.y), MIN_SIZE)]

\* dragPills with the origin not clamped at 0
dragPills_noClamp(prev, x, y) ==
    [i \in 1..Len(prev) |->
        IF prev[i].id = draggedPill.id
        THEN [prev[i] EXCEPT !.x = x - dragOffset.x, !.y = y - dragOffset.y]
        ELSE prev[i]]

\* dragPills with every pill moved, not only the one whose id is the target's
dragPills_everyPill(prev, x, y) ==
    [i \in 1..Len(prev) |->
        [prev[i] EXCEPT !.x = Max(0, x - dragOffset.x),
                        !.y = Max(0, y - dragOffset.y)]]

\* handleMouseMove: the updater of setPills while dragging
dragPills(prev, x, y) ==
    [i \in 1..Len(prev) |->
        IF prev[i].id = draggedPill.id
        THEN [prev[i] EXCEPT !.x = Max(0, x - dragOffset.x),
                             !.y = Max(0, y - dragOffset.y)]
        ELSE prev[i]]

\* handleClick: const intersectsV / intersectsH
intersectsV(pill, clickX) == clickX >= pill.x /\ clickX <= pill.x + pill.width
intersectsH(pill, clickY) == clickY >= pill.y /\ clickY <= pill.y + pill.height

\* handleClick: const splitX / splitY
splitX(pill, clickX) == Max(0, Min(pill.width, clickX - pill.x))
splitY(pill, clickY) == Max(0, Min(pill.height, clickY - pill.y))

\* canSplitV with the margin taken strictly
canSplitV_strict(pill, clickX) ==
    /\ intersectsV(pill, clickX)
    /\ splitX(pill, clickX) > SPLIT_MARGIN
    /\ pill.width - splitX(pill, clickX) > SPLIT_MARGIN

\* canSplitV with no margin on the left piece
canSplitV_noMargin(pill, clickX) ==
    /\ intersectsV(pill, clickX)
    /\ splitX(pill, clickX) > 0
    /\ pill.width - splitX(pill, clickX) >= SPLIT_MARGIN

\* canSplitH with no margin on either piece
canSplitH_noMargin(pill, clickY) ==
    /\ intersectsH(pill, clickY)
    /\ splitY(pill, clickY) > 0
    /\ pill.height - splitY(pill, clickY) > 0

\* handleClick: const canSplitV / canSplitH
canSplitV(pill, clickX) ==
    /\ intersectsV(pill, clickX)
    /\ splitX(pill, clickX) >= SPLIT_MARGIN
    /\ pill.width - splitX(pill, clickX) >= SPLIT_MARGIN
canSplitH(pill, clickY) ==
    /\ intersectsH(pill, clickY)
    /\ splitY(pill, clickY) >= SPLIT_MARGIN
    /\ pill.height - splitY(pill, clickY) >= SPLIT_MARGIN

\* fourWay with the bottom-left piece given the whole height
fourWay_fullHeight(pill, clickX, clickY, id) ==
    LET sx == splitX(pill, clickX)
        sy == splitY(pill, clickY)
    IN << createPill(id, pill.x, pill.y, sx, sy, pill.color, "20px 0 0 0"),
          createPill(id + 1, pill.x + sx, pill.y, pill.width - sx, sy,
                     pill.color, "0 20px 0 0"),
          createPill(id + 2, pill.x, pill.y + sy, sx, pill.height,
                     pill.color, "0 0 0 20px"),
          createPill(id + 3, pill.x + sx, pill.y + sy, pill.width - sx,
                     pill.height - sy, pill.color, "0 0 20px 0") >>

\* handleClick: the four-way split
fourWay(pill, clickX, clickY, id) ==
    LET sx == splitX(pill, clickX)
        sy == splitY(pill, clickY)
    IN << createPill(id, pill.x, pill.y, sx, sy, pill.color, "20px 0 0 0"),
          createPill(id + 1, pill.x + sx, pill.y, pill.width - sx, sy,
                     pill.color, "0 20px 0 0"),
          createPill(id + 2, pill.x, pill.y + sy, sx, pill.height - sy,
                     pill.color, "0 0 0 20px"),
          createPill(id + 3, pill.x + sx, pill.y + sy, pill.width - sx,
                     pill.height - sy, pill.color, "0 0 20px 0") >>

\* handleClick: the vertical split (left and right piece)
verticalSplit(pill, clickX, id) ==
    LET sx == splitX(pill, clickX)
    IN << createPill(id, pill.x, pill.y, sx, pill.height, pill.color,
                     "20px 0 0 20px"),
          createPill(id + 1, pill.x + sx, pill.y, pill.width - sx, pill.height,
                     pill.color, "0 20px 20px 0") >>

\* handleClick: the horizontal split (top and bottom piece)
horizontalSplit(pill, clickY, id) ==
    LET sy == splitY(pill, clickY)
    IN << createPill(id, pill.x, pill.y, pill.width, sy, pill.color,
                     "20px 20px 0 0"),
          createPill(id + 1, pill.x, pill.y + sy, pill.width, pill.height - sy,
                     pill.color, "0 0 20px 20px") >>

\* nudge with the clone keeping the id of the pill
nudge_keepsId(pill, clickX, clickY, id) ==
    LET newX == IF intersectsV(pill, clickX)
                THEN IF 2 * pill.x + pill.width < 2 * clickX
                     THEN Max(0, clickX - pill.width - NUDGE_GAP)
                     ELSE clickX + NUDGE_GAP
                ELSE pill.x
        newY == IF intersectsH(pill, clickY)
                THEN IF 2 * pill.y + pill.height < 2 * clickY
                     THEN Max(0, clickY - pill.height - NUDGE_GAP)
                     ELSE clickY + NUDGE_GAP
                ELSE pill.y
    IN << [pill EXCEPT !.x = newX, !.y = newY,
                       !.borderRadius = CORNER_RADIUS] >>

\* nudge with the move to the left and up not clamped at 0
nudge_noClamp(pill, clickX, clickY, id) ==
    LET newX == IF intersectsV(pill, clickX)
                THEN IF 2 * pill.x + pill.width < 2 * clickX
                     THEN clickX - pill.width - NUDGE_GAP
                     ELSE clickX + NUDGE_GAP
                ELSE pill.x
        newY == IF intersectsH(pill, clickY)
                THEN IF 2 * pill.y + pill.height < 2 * clickY
                     THEN clickY - pill.height - NUDGE_GAP
                     ELSE clickY + NUDGE_GAP
                ELSE pill.y
    IN << [pill EXCEPT !.id = id, !.x = newX, !.y = newY,
                       !.borderRadius = CORNER_RADIUS] >>

\* handleClick: the nudge ("too small -> move away").  centerX < clickX with
\* centerX = pill.x + pill.width / 2 is compared doubled, in integers.
nudge(pill, clickX, clickY, id) ==
    LET newX == IF intersectsV(pill, clickX)
                THEN IF 2 * pill.x + pill.width < 2 * clickX
                     THEN Max(0, clickX - pill.width - NUDGE_GAP)
                     ELSE clickX + NUDGE_GAP
                ELSE pill.x
        newY == IF intersectsH(pill, clickY)
                THEN IF 2 * pill.y + pill.height < 2 * clickY
                     THEN Max(0, clickY - pill.height - NUDGE_GAP)
                     ELSE clickY + NUDGE_GAP
                ELSE pill.y
    IN << [pill EXCEPT !.id = id, !.x = newX, !.y = newY,
                       !.borderRadius = CORNER_RADIUS] >>

\* splitPill with the untouched pill cloned under a new id as well
splitPill_alwaysClones(pill, clickX, clickY, id) ==
    IF canSplitV(pill, clickX) /\ canSplitH(pill, clickY)
        THEN fourWay(pill, clickX, clickY, id)
    ELSE IF canSplitV(pill, clickX) THEN verticalSplit(pill, clickX, id)
    ELSE IF canSplitH(pill, clickY) THEN horizontalSplit(pill, clickY, id)
    ELSE IF intersectsV(pill, clickX) \/ intersectsH(pill, clickY)
        THEN nudge(pill, clickX, clickY, id)
    ELSE << [pill EXCEPT !.id = id] >>

\* splitPill with the nudge tried before the single-axis splits
splitPill_nudgeFirst(pill, clickX, clickY, id) ==
    IF canSplitV(pill, clickX) /\ canSplitH(pill, clickY)
        THEN fourWay(pill, clickX, clickY, id)
    ELSE IF \/ intersectsV(pill, clickX) /\ ~canSplitV(pill, clickX)
            \/ intersectsH(pill, clickY) /\ ~canSplitH(pill, clickY)
        THEN nudge(pill, clickX, clickY, id)
    ELSE IF canSplitV(pill, clickX) THEN verticalSplit(pill, clickX, id)
    ELSE IF canSplitH(pill, clickY) THEN horizontalSplit(pill, clickY, id)
    ELSE << pill >>

\* handleClick: the body of prev.forEach, the pills pushed for one pill when
\* nextIdRef holds id
splitPill(pill, clickX, clickY, id) ==
    IF canSplitV(pill, clickX) /\ canSplitH(pill, clickY)
        THEN fourWay(pill, clickX, clickY, id)
    ELSE IF canSplitV(pill, clickX) THEN verticalSplit(pill, clickX, id)
    ELSE IF canSplitH(pill, clickY) THEN horizontalSplit(pill, clickY, id)
    ELSE IF intersectsV(pill, clickX) \/ intersectsH(pill, clickY)
        THEN nudge(pill, clickX, clickY, id)
    ELSE << pill >>

\* idsTaken with the nudge reading nextIdRef without advancing it
idsTaken_nudgeReadsOnly(pill, out) ==
    IF out = << pill >> \/ Len(out) = 1 THEN 0 ELSE Len(out)

\* the ids one pill's pushes took from nextIdRef (each createPill and the
\* nudge do nextIdRef.current++)
idsTaken(pill, out) == IF out = << pill >> THEN 0 ELSE Len(out)

\* forEachPill with the pills after the first one hit passed through untouched
RECURSIVE forEachPill_firstHitOnly(_, _, _, _)
forEachPill_firstHitOnly(prev, clickX, clickY, id) ==
    IF prev = << >> THEN << >>
    ELSE LET out == splitPill(Head(prev), clickX, clickY, id)
         IN IF out = << Head(prev) >>
            THEN << out >> \o forEachPill_firstHitOnly(Tail(prev), clickX, clickY, id)
            ELSE << out >> \o [k \in 1..Len(Tail(prev)) |-> << Tail(prev)[k] >>]

\* handleClick: prev.forEach over the collection, nextIdRef threaded through;
\* the result keeps the pushes of each pill apart
RECURSIVE forEachPill(_, _, _, _)
forEachPill(prev, clickX, clickY, id) ==
    IF prev = << >> THEN << >>
    ELSE LET out == splitPill(Head(prev), clickX, clickY, id)
         IN << out >> \o forEachPill(Tail(prev), clickX, clickY,
                                     id + idsTaken(Head(prev), out))

\* newPills: the pushes in the order they were made
RECURSIVE newPills(_)
newPills(outs) == IF outs = << >> THEN << >> ELSE Head(outs) \o newPills(Tail(outs))

RECURSIVE countPushed(_, _)
countPushed(prev, outs) ==
    IF prev = << >> THEN 0
    ELSE idsTaken(Head(prev), Head(outs)) + countPushed(Tail(prev), Tail(outs))

(* ----------------------------- hit testing ----------------------------- *)

\* the box of a rendered pill (left, top, width, height of its div)
covers(pill, p) ==
    /\ pill.x <= p.x /\ p.x < pill.x + pill.width
    /\ pill.y <= p.y /\ p.y < pill.y + pill.height

\* the pills under the point; the one rendered last is on top
pillsAt(p) == {i \in 1..Len(pills) : covers(pills[i], p)}
topPillAt(p) == CHOOSE i \in pillsAt(p) : \A j \in pillsAt(p) : j <= i

(* ------------------------------- actions ------------------------------- *)

Init ==
    /\ pills = << >>
    /\ currentPill = null
    /\ isDrawing = FALSE
    /\ isDragging = FALSE
    /\ draggedPill = null
    /\ dragOffset = [x |-> 0, y |-> 0]
    /\ startPos = [x |-> 0, y |-> 0]
    /\ nextIdRef = 0
    /\ hasMoved = FALSE
    /\ timers = 0
    /\ phase = "idle"
    /\ pointer = [x |-> 0, y |-> 0]
    /\ events = 0
    /\ gestureMoved = FALSE
    /\ stayedNear = TRUE
    /\ last = Did("init")

\* onMouseDown of the container, the press landing on the container itself
handleMouseDown ==
    \E e \in Points, color \in colors :
        LET c == getMouseCoords(e) IN
        /\ phase = "idle"
        /\ events < MaxEvents
        /\ pillsAt(c) = {}
        /\ hasMoved' = FALSE
        /\ startPos' = c
        /\ currentPill' = createPill(nextIdRef, c.x, c.y, MIN_SIZE, MIN_SIZE,
                                     color, CORNER_RADIUS)
        /\ nextIdRef' = nextIdRef + 1
        /\ phase' = "pressed"
        /\ pointer' = c
        /\ events' = events + 1
        /\ gestureMoved' = FALSE
        /\ stayedNear' = TRUE
        /\ last' = Did("press")
        /\ UNCHANGED <<pills, isDrawing, isDragging, draggedPill,
                       dragOffset, timers>>

\* onMouseDown of a pill (the event does not reach the container)
handlePillMouseDown ==
    \E e \in Points :
        LET c == getMouseCoords(e) IN
        /\ phase = "idle"
        /\ events < MaxEvents
        /\ pillsAt(c) # {}
        /\ LET pill == pills[topPillAt(c)] IN
            /\ hasMoved' = FALSE
            /\ isDragging' = TRUE
            /\ draggedPill' = pill
            /\ dragOffset' = [x |-> c.x - pill.x, y |-> c.y - pill.y]
        /\ phase' = "pressed"
        /\ pointer' = c
        /\ events' = events + 1
        /\ gestureMoved' = FALSE
        /\ stayedNear' = TRUE
        /\ last' = Did("pressPill")
        /\ UNCHANGED <<pills, currentPill, isDrawing, startPos,
                       nextIdRef, timers>>

\* onMouseMove of the container, during a gesture.  (Outside a gesture there is
\* no draft and no dragged pill, and the handler only sets mousePos, which
\* places the guide lines and is read by no handler; mousePos is left out.)
handleMouseMove ==
    \E e \in Points :
        LET c == getMouseCoords(e)
            crossing == currentPill # null /\ ~isDrawing /\ crossesThreshold(c.x, c.y)
            dragging == isDragging /\ draggedPill # null
        IN
        /\ phase = "pressed"
        /\ events < MaxEvents
        /\ events' = events + 1
        /\ isDrawing' = (isDrawing \/ crossing)
        /\ hasMoved' = (hasMoved \/ crossing \/ dragging)
        /\ currentPill' = IF isDrawing /\ currentPill # null
                          THEN resizeDraft(currentPill, c.x, c.y)
                          ELSE currentPill
        /\ pills' = IF dragging THEN dragPills(pills, c.x, c.y) ELSE pills
        /\ pointer' = c
        /\ gestureMoved' = (gestureMoved \/ crossing \/ dragging)
        /\ stayedNear' = IF currentPill = null THEN stayedNear
                         ELSE /\ stayedNear
                              /\ c.x - startPos.x <= 5 /\ startPos.x - c.x <= 5
                              /\ c.y - startPos.y <= 5 /\ startPos.y - c.y <= 5
        /\ last' = Did("move")
        /\ UNCHANGED <<isDragging, draggedPill, dragOffset, startPos, nextIdRef,
                       timers, phase>>

\* commitDraft with the draft appended twice
commitDraft_twice(prev) ==
    IF isDrawing /\ currentPill # null
    THEN Append(Append(prev, currentPill), currentPill) ELSE prev

\* handleMouseUp: the pills after the release
commitDraft(prev) ==
    IF isDrawing /\ currentPill # null THEN Append(prev, currentPill) ELSE prev

\* onMouseUp of the container
handleMouseUp ==
    /\ phase = "pressed"
    /\ events < MaxEvents
    /\ events' = events + 1
    /\ pills' = commitDraft(pills)
    /\ isDrawing' = FALSE
    /\ currentPill' = null
    /\ isDragging' = FALSE
    /\ draggedPill' = null
    /\ timers' = timers + 1
    /\ phase' = "released"
    /\ last' = [Did("release") EXCEPT !.prev = pills,
                                       !.committed = (isDrawing /\ currentPill # null),
                                       !.draft = (currentPill # null)]
    /\ UNCHANGED <<dragOffset, startPos, nextIdRef, hasMoved, pointer,
                   gestureMoved, stayedNear>>

\* handleClick: the early return
clickGated == isDrawing \/ isDragging \/ hasMoved

\* onClick of the container, delivered at the release coordinates
handleClick ==
    LET outs == forEachPill(pills, pointer.x, pointer.y, nextIdRef) IN
    /\ phase = "released"
    /\ events < MaxEvents
    /\ events' = events + 1
    /\ phase' = "idle"
    /\ IF clickGated
       THEN /\ UNCHANGED <<pills, nextIdRef>>
            /\ last' = [Did("click") EXCEPT !.prev = pills, !.x = pointer.x,
                                            !.y = pointer.y, !.gated = TRUE,
                                            !.startId = nextIdRef]
       ELSE /\ pills' = newPills(outs)
            /\ nextIdRef' = nextIdRef + countPushed(pills, outs)
            /\ last' = [Did("click") EXCEPT !.prev = pills, !.out = outs,
                                            !.x = pointer.x, !.y = pointer.y,
                                            !.startId = nextIdRef]
    /\ UNCHANGED <<currentPill, isDrawing, isDragging, draggedPill,
                   dragOffset, startPos, hasMoved, timers, pointer,
                   gestureMoved, stayedNear>>

\* the callback of setTimeout(() => (hasMoved.current = false), 10)
resetHasMoved ==
    /\ timers > 0
    /\ phase # "released"
    /\ hasMoved' = FALSE
    /\ timers' = timers - 1
    /\ last' = Did("timer")
    /\ UNCHANGED <<pills, currentPill, isDrawing, isDragging,
                   draggedPill, dragOffset, startPos, nextIdRef, phase, pointer,
                   events, gestureMoved, stayedNear>>

Next ==
    \/ handleMouseDown
    \/ handlePillMouseDown
    \/ handleMouseMove
    \/ handleMouseUp
    \/ handleClick
    \/ resetHasMoved

Spec == Init /\ [][Next]_vars

(* ------------------------------- claims -------------------------------- *)

\* the last handler was a click that passed the early return
ClickRan == last.op = "click" /\ ~last.gated

\* the last handler was a release that appended the draft
DrawCommitted == last.op = "release" /\ last.committed

\* the ids of a sequence of pills
IdsOf(ps) == {ps[i].id : i \in 1..Len(ps)}

\* the point lies in no part of the closed rectangle of the shape
OutsideRectangle(s, x, y) ==
    x < s.x \/ x > s.x + s.width \/ y < s.y \/ y > s.y + s.height

\* the point lies in neither axis band of the shape
OutsideBothBands(s, x, y) ==
    (x < s.x \/ x > s.x + s.width) /\ (y < s.y \/ y > s.y + s.height)

\* C1: in a gesture in which moved was set to true (a draw that crossed the
\* threshold, any move while dragging), the click that follows the release
\* leaves the shape collection as it was right after the release.
C1_ClickAfterMovedGestureChangesNothing ==
    [][(phase = "released" /\ gestureMoved) => pills' = pills]_vars

\* C2 as stated: a click with moved = false at a point outside the rectangle
\* of every shape leaves the collection unchanged.
C2_ClickOutsideEveryRectangle ==
    ( /\ ClickRan
      /\ \A i \in 1..Len(last.prev) : OutsideRectangle(last.prev[i], last.x, last.y) )
    => pills = last.prev

\* C2 as amended: a click with moved = false at a point outside both axis bands
\* of every shape (x outside [sx, sx+w] and y outside [sy, sy+h]) leaves the
\* collection unchanged: same shapes, same ids, same geometry, same order.
C2_ClickOutsideEveryBand ==
    ( /\ ClickRan
      /\ \A i \in 1..Len(last.prev) : OutsideBothBands(last.prev[i], last.x, last.y) )
    => pills = last.prev

\* a click ran on a store of at least one shape, outside both bands of each
C2_Witness ==
    /\ ClickRan
    /\ Len(last.prev) >= 1
    /\ \A i \in 1..Len(last.prev) : OutsideBothBands(last.prev[i], last.x, last.y)

\* C3: the click of a gesture that set moved (a draw or a drag) never observes
\* moved = false: no deferred reset clears it between the move and the click.
C3_ClickObservesMoved ==
    (phase = "released" /\ gestureMoved) => hasMoved

\* C4: a draw gesture whose last move left the pointer at p, more than 5 units
\* from startPoint on some axis, appends exactly one shape, the rectangle
\* spanning startPoint and p with each side at least MIN_SIZE.
C4_DrawCommitsSpanningRectangle ==
    ( /\ last.op = "release"
      /\ last.prev # pills
      /\ Abs(pointer.x - startPos.x) > 5 \/ Abs(pointer.y - startPos.y) > 5 )
    => /\ Len(pills) = Len(last.prev) + 1
       /\ LET s == pills[Len(pills)] IN
            /\ s.x = Min(startPos.x, pointer.x)
            /\ s.y = Min(startPos.y, pointer.y)
            /\ s.width = Max(Abs(pointer.x - startPos.x), 40)
            /\ s.height = Max(Abs(pointer.y - startPos.y), 40)

\* C5 as stated: every committed shape is at least MIN_SIZE wide and high.
C5_CommittedAtLeastMinSize ==
    \A i \in 1..Len(pills) : pills[i].width >= 40 /\ pills[i].height >= 40

\* C5 as amended: every committed shape is at least 20 (the split margin) wide
\* and high, whatever operation created it, and a shape is at least MIN_SIZE
\* = 40 wide and high when a draw commits it.
C5_CommittedAtLeastSplitMargin ==
    /\ \A i \in 1..Len(pills) : pills[i].width >= 20 /\ pills[i].height >= 20
    /\ DrawCommitted =>
         pills[Len(pills)].width >= 40 /\ pills[Len(pills)].height >= 40

\* a split has left a committed shape thinner than MIN_SIZE
C5_Witness ==
    /\ ClickRan
    /\ \E i \in 1..Len(pills) : pills[i].width = 20 /\ pills[i].id >= last.startId

\* clamp(v, 0, hi) of the split decision
Clamp(v, hi) == IF v < 0 THEN 0 ELSE IF v > hi THEN hi ELSE v

\* the split coordinate lies in [20, dimension - 20]
InMargin(c, dimension) == 20 <= c /\ c <= dimension - 20

\* the pieces the last click put in the place of the i-th shape it found
Pieces(i) == last.out[i]

\* the last click replaced its i-th shape by n new shapes
ReplacedBy(i, n) ==
    /\ Len(Pieces(i)) = n
    /\ \A k \in 1..n : Pieces(i)[k].id # last.prev[i].id

\* C6: a click with moved = false replaces shape S by four shapes if and only
\* if splitX = clamp(cx - sx, 0, w) lies in [20, w - 20] and splitY =
\* clamp(cy - sy, 0, h) lies in [20, h - 20].
C6_FourWayIffBothInMargin ==
    ClickRan =>
        /\ pills = newPills(last.out)
        /\ Len(last.out) = Len(last.prev)
        /\ \A i \in 1..Len(last.prev) :
             LET s == last.prev[i] IN
             ReplacedBy(i, 4) <=>
                 /\ InMargin(Clamp(last.x - s.x, s.width), s.width)
                 /\ InMargin(Clamp(last.y - s.y, s.height), s.height)

\* a shape 100 wide was split four ways with the split coordinate at 20
C6_Witness ==
    /\ ClickRan
    /\ \E i \in 1..Len(last.prev) :
         /\ last.prev[i].width = 100
         /\ last.x - last.prev[i].x = 20
         /\ ReplacedBy(i, 4)

\* a shape 100 wide was not split on the axis where the split coordinate is 19
C6_WitnessBelowMargin ==
    /\ ClickRan
    /\ \E i \in 1..Len(last.prev) :
         /\ last.prev[i].width = 100
         /\ last.x - last.prev[i].x = 19
         /\ ReplacedBy(i, 2)

Area(s) == s.width * s.height

RECURSIVE SumArea(_)
SumArea(ps) == IF ps = << >> THEN 0 ELSE Area(Head(ps)) + SumArea(Tail(ps))

\* the piece lies inside the bounds of the shape
Inside(p, s) ==
    /\ s.x <= p.x /\ p.x + p.width <= s.x + s.width
    /\ s.y <= p.y /\ p.y + p.height <= s.y + s.height

\* the interiors of the two pieces meet
Overlap(p, q) ==
    /\ p.x < q.x + q.width /\ q.x < p.x + p.width
    /\ p.y < q.y + q.height /\ q.y < p.y + p.height

\* the unit cell with lower corner (x, y) lies in the piece
HasCell(p, x, y) ==
    /\ p.x <= x /\ x < p.x + p.width
    /\ p.y <= y /\ y < p.y + p.height

\* the pieces partition the shape: the areas add up, each piece lies inside,
\* no two overlap, and every cell of the shape that starts at an edge of a
\* piece (one cell of each rectangle the edges cut the shape into) is covered
Partition(ps, s) ==
    /\ SumArea(ps) = Area(s)
    /\ \A k \in 1..Len(ps) : Inside(ps[k], s) /\ ps[k].width > 0 /\ ps[k].height > 0
    /\ \A k, m \in 1..Len(ps) : k # m => ~Overlap(ps[k], ps[m])
    /\ LET xs == {s.x} \cup {ps[k].x : k \in 1..Len(ps)}
                     \cup {ps[k].x + ps[k].width : k \in 1..Len(ps)}
           ys == {s.y} \cup {ps[k].y : k \in 1..Len(ps)}
                     \cup {ps[k].y + ps[k].height : k \in 1..Len(ps)}
       IN \A x \in xs, y \in ys :
            HasCell(s, x, y) => \E k \in 1..Len(ps) : HasCell(ps[k], x, y)

\* C7: the sub-shapes of every two-way and four-way split exactly partition
\* the shape: areas sum to its area, each lies inside it, none overlap, no
\* point of it is left uncovered.
C7_SplitPartitionsShape ==
    ClickRan =>
        \A i \in 1..Len(last.prev) :
            (ReplacedBy(i, 2) \/ ReplacedBy(i, 4)) => Partition(Pieces(i), last.prev[i])

\* a click split a shape four ways off its centre, into pieces of four sizes
C7_Witness ==
    /\ ClickRan
    /\ \E i \in 1..Len(last.prev) :
         /\ ReplacedBy(i, 4)
         /\ Cardinality({<<Pieces(i)[k].width, Pieces(i)[k].height>> : k \in 1..4}) = 4

\* a click split a shape two ways off its centre
C7_WitnessTwoWay ==
    /\ ClickRan
    /\ \E i \in 1..Len(last.prev) :
         /\ ReplacedBy(i, 2)
         /\ Area(Pieces(i)[1]) # Area(Pieces(i)[2])

\* the shapes that exist: those of ShapeStore and the draft
Existing == IdsOf(pills) \cup (IF currentPill = null THEN {} ELSE {currentPill.id})

\* no two shapes among ShapeStore and the draft share an id
IdsDistinct ==
    /\ \A i, j \in 1..Len(pills) : i # j => pills[i].id # pills[j].id
    /\ currentPill # null => currentPill.id \notin IdsOf(pills)

\* C8: ids come from one increasing counter: the counter never goes back,
\* every id that appears in a step is one the counter handed out in that step
\* (at least the counter before, below the counter after, so above every id
\* handed out earlier and never handed out twice), and in every state no two
\* shapes among ShapeStore and the draft share an id.
C8_IdsFromOneIncreasingCounter ==
    [][ /\ nextIdRef' >= nextIdRef
        /\ \A id \in Existing' \ Existing : nextIdRef <= id /\ id < nextIdRef'
        /\ \A id \in Existing' : id < nextIdRef'
        /\ Cardinality(Existing' \ Existing) <= nextIdRef' - nextIdRef
        /\ IdsDistinct' ]_vars

\* a click has handed out ids to the pieces of two shapes while an earlier id
\* is gone from the store
C8_Witness ==
    /\ ClickRan
    /\ \E i, j \in 1..Len(last.prev) :
         i # j /\ Pieces(i) # << last.prev[i] >> /\ Pieces(j) # << last.prev[j] >>
    /\ \E id \in 0..(nextIdRef - 1) : id \notin IdsOf(pills)

\* the click lies in a band of the shape and no split condition holds
Nudged(s, x, y) ==
    /\ (s.x <= x /\ x <= s.x + s.width) \/ (s.y <= y /\ y <= s.y + s.height)
    /\ ~((s.x <= x /\ x <= s.x + s.width) /\ InMargin(Clamp(x - s.x, s.width), s.width))
    /\ ~((s.y <= y /\ y <= s.y + s.height) /\ InMargin(Clamp(y - s.y, s.height), s.height))

\* C9: when a click nudges shape S, the store holds in its place exactly one
\* clone of the same width and height whose id differs from that of S and from
\* every id handed out before, and the id of S is nowhere in the collection.
C9_NudgeClonesUnderNewId ==
    ClickRan =>
        \A i \in 1..Len(last.prev) :
            LET s == last.prev[i] IN
            Nudged(s, last.x, last.y) =>
                /\ Len(Pieces(i)) = 1
                /\ Pieces(i)[1].width = s.width
                /\ Pieces(i)[1].height = s.height
                /\ Pieces(i)[1].id # s.id
                /\ Pieces(i)[1].id >= last.startId
                /\ Pieces(i)[1].id \notin IdsOf(last.prev)
                /\ s.id \notin IdsOf(pills)
                /\ pills = newPills(last.out)

\* a click nudged a shape of a store that holds another shape too
C9_Witness ==
    /\ ClickRan
    /\ Len(last.prev) >= 2
    /\ \E i \in 1..Len(last.prev) :
         /\ Nudged(last.prev[i], last.x, last.y)
         /\ (Pieces(i)[1].x # last.prev[i].x \/ Pieces(i)[1].y # last.prev[i].y)

\* C10: the shape a draw gesture commits is at least 40 wide and 40 high, also
\* when the pointer is less than 40 (or nothing) from startPoint on an axis at
\* release; the draft is at least that large from the press on.
C10_DrawCommitsAtLeastMinSize ==
    /\ currentPill # null => currentPill.width >= 40 /\ currentPill.height >= 40
    /\ DrawCommitted =>
         /\ pills = Append(last.prev, pills[Len(pills)])
         /\ pills[Len(pills)].width >= 40
         /\ pills[Len(pills)].height >= 40

\* a draw was committed after a move beyond the one that crossed the threshold,
\* with the pointer nowhere from startPoint on one axis and under 40 on the other
C10_Witness ==
    /\ DrawCommitted
    /\ pointer.y = startPos.y
    /\ Abs(pointer.x - startPos.x) < 40
    /\ pills[Len(pills)].x = pointer.x
    /\ pointer.x < startPos.x

\* C11: with pointer coordinates that are all non-negative, every shape of
\* ShapeStore and the draft have origin x >= 0 and y >= 0 in every reachable
\* state, after any sequence of draw, drag, split and nudge.
C11_OriginsNonNegative ==
    /\ \A p \in Points : p.x >= 0 /\ p.y >= 0
    /\ \A i \in 1..Len(pills) : pills[i].x >= 0 /\ pills[i].y >= 0
    /\ currentPill # null => currentPill.x >= 0 /\ currentPill.y >= 0

\* a drag has brought the pointer closer to the surface origin than the offset
\* recorded at press, and the dragged shape lies at the clamp
C11_Witness ==
    /\ phase = "pressed" /\ isDragging /\ last.op = "move"
    /\ pointer.x - dragOffset.x < 0
    /\ \E i \in 1..Len(pills) : pills[i].id = draggedPill.id /\ pills[i].x = 0

\* the step is a move while dragging
DragMove ==
    /\ phase = "pressed" /\ phase' = "pressed" /\ events' = events + 1
    /\ isDragging

\* the step is a press on a shape
PressOnShape == phase = "idle" /\ phase' = "pressed" /\ isDragging'

\* C12: a move while dragging sets the origin of the shape whose id is the drag
\* target to (max(0, pointer.x - offset.x), max(0, pointer.y - offset.y)),
\* offset being pointer minus origin as recorded at press, and changes nothing
\* else: the target keeps id, width, height, color and place in the
\* collection, every other shape is unchanged.
C12_DragMovesOnlyTheTarget ==
    [][ /\ PressOnShape =>
            /\ pills' = pills
            /\ \E i \in 1..Len(pills) :
                 /\ pills[i].id = draggedPill'.id
                 /\ dragOffset'.x = pointer'.x - pills[i].x
                 /\ dragOffset'.y = pointer'.y - pills[i].y
        /\ DragMove =>
            /\ Len(pills') = Len(pills)
            /\ dragOffset' = dragOffset /\ draggedPill' = draggedPill
            /\ \A i \in 1..Len(pills) :
                 IF pills[i].id = draggedPill.id
                 THEN pills'[i] =
                        [pills[i] EXCEPT
                            !.x = IF pointer'.x - dragOffset.x > 0
                                  THEN pointer'.x - dragOffset.x ELSE 0,
                            !.y = IF pointer'.y - dragOffset.y > 0
                                  THEN pointer'.y - dragOffset.y ELSE 0]
                 ELSE pills'[i] = pills[i] ]_vars

\* a shape of a store of several was dragged to a new origin
C12_Witness ==
    /\ phase = "pressed" /\ isDragging /\ last.op = "move"
    /\ Len(pills) >= 2
    /\ \E i \in 1..Len(pills) :
         /\ pills[i].id = draggedPill.id
         /\ (pills[i].x # draggedPill.x \/ pills[i].y # draggedPill.y)

\* C13: a press on empty area followed only by moves that stay within 5 units
\* of startPoint on both axes (exactly 5 does not cross) and a release appends
\* nothing, discards the draft, leaves moved = false and returns to Idle; the
\* draft is in Drawing only after a move more than 5 units away on some axis.
C13_NoDrawWithinThreshold ==
    /\ (currentPill # null /\ stayedNear) => (~isDrawing /\ ~hasMoved)
    /\ (last.op = "press") => (startPos = pointer /\ ~isDrawing)
    /\ (last.op = "release" /\ last.draft /\ stayedNear) =>
            /\ pills = last.prev
            /\ currentPill = null
            /\ ~hasMoved
            /\ ~isDrawing /\ ~isDragging /\ draggedPill = null

\* a draw gesture was released after a move of exactly 5 units on both axes
C13_Witness ==
    /\ last.op = "release" /\ last.draft /\ stayedNear
    /\ Abs(pointer.x - startPos.x) = 5
    /\ Abs(pointer.y - startPos.y) = 5

\* the click coordinate lies in the band [origin, origin + size]
InBand(c, origin, size) == origin <= c /\ c <= origin + size

\* the split condition of one axis: in the band, split coordinate in the margin
CanSplit(c, origin, size) ==
    InBand(c, origin, size) /\ InMargin(Clamp(c - origin, size), size)

\* the four outcomes of the decision for shape s and click (x, y)
IsFourWay(s, x, y) == CanSplit(x, s.x, s.width) /\ CanSplit(y, s.y, s.height)
IsTwoWay(s, x, y) == CanSplit(x, s.x, s.width) # CanSplit(y, s.y, s.height)
IsNudge(s, x, y) ==
    /\ ~CanSplit(x, s.x, s.width) /\ ~CanSplit(y, s.y, s.height)
    /\ InBand(x, s.x, s.width) \/ InBand(y, s.y, s.height)
IsNoEffect(s, x, y) == ~InBand(x, s.x, s.width) /\ ~InBand(y, s.y, s.height)

\* the outcomes, in the order of the shapes, one after the other
RECURSIVE Concat(_)
Concat(outs) == IF outs = << >> THEN << >> ELSE Head(outs) \o Concat(Tail(outs))

\* the number of the four outcomes that apply to the shape
OutcomesOf(s, x, y) ==
    Cardinality({k \in 1..4 : \/ k = 1 /\ IsFourWay(s, x, y)
                              \/ k = 2 /\ IsTwoWay(s, x, y)
                              \/ k = 3 /\ IsNudge(s, x, y)
                              \/ k = 4 /\ IsNoEffect(s, x, y)})

\* a shape without its id
Unnamed(p) == << p.x, p.y, p.width, p.height, p.color, p.borderRadius >>

\* C14: a click with moved = false evaluates every shape on its own against
\* the one click point: the new collection is the concatenation, in the order
\* of the shapes, of each shape's outcome (4 pieces, 2 pieces, one nudged
\* clone, or the shape itself with its id); exactly one outcome applies to a
\* shape and it is decided by that shape and the click point alone.
C14_ClickIsConcatenationOfOutcomes ==
    ClickRan =>
        /\ Len(last.out) = Len(last.prev)
        /\ pills = Concat(last.out)
        /\ \A i \in 1..Len(last.prev) :
             LET s == last.prev[i] IN
             /\ OutcomesOf(s, last.x, last.y) = 1
             /\ IsFourWay(s, last.x, last.y) => ReplacedBy(i, 4)
             /\ IsTwoWay(s, last.x, last.y) => ReplacedBy(i, 2)
             /\ IsNudge(s, last.x, last.y) => ReplacedBy(i, 1)
             /\ IsNoEffect(s, last.x, last.y) => Pieces(i) = << s >>
             /\ LET alone == splitPill(s, last.x, last.y, 0)
                IN /\ Len(Pieces(i)) = Len(alone)
                   /\ \A k \in 1..Len(alone) :
                        Unnamed(Pieces(i)[k]) = Unnamed(alone[k])

\* one click left the first shape of the store as it was and changed a later one
C14_Witness ==
    /\ ClickRan
    /\ Len(last.prev) >= 2
    /\ Pieces(1) = << last.prev[1] >>
    /\ \E j \in 2..Len(last.prev) : Pieces(j) # << last.prev[j] >>

\* one click split one shape and nudged another
C14_WitnessMixed ==
    /\ ClickRan
    /\ \E i, j \in 1..Len(last.prev) :
         /\ Len(Pieces(i)) >= 2
         /\ IsNudge(last.prev[j], last.x, last.y)

\* C15: when exactly one of canSplitV and canSplitH holds for shape S, the
\* click emits exactly the two pieces of that axis, left (sx,sy,splitX,h) and
\* right (sx+splitX,sy,w-splitX,h), or top (sx,sy,w,splitY) and bottom
\* (sx,sy+splitY,w,h-splitY), in the color of S, and never a nudge, also when
\* the click lies in the band of the other axis.
C15_SingleAxisSplitEmitsTwoPieces ==
    ClickRan =>
        \A i \in 1..Len(last.prev) :
            LET s == last.prev[i]
                cx == Clamp(last.x - s.x, s.width)
                cy == Clamp(last.y - s.y, s.height)
                Geo(p) == << p.x, p.y, p.width, p.height, p.color >>
            IN
            /\ (CanSplit(last.x, s.x, s.width) /\ ~CanSplit(last.y, s.y, s.height)) =>
                 /\ ReplacedBy(i, 2)
                 /\ Geo(Pieces(i)[1]) = << s.x, s.y, cx, s.height, s.color >>
                 /\ Geo(Pieces(i)[2]) = << s.x + cx, s.y, s.width - cx, s.height, s.color >>
            /\ (CanSplit(last.y, s.y, s.height) /\ ~CanSplit(last.x, s.x, s.width)) =>
                 /\ ReplacedBy(i, 2)
                 /\ Geo(Pieces(i)[1]) = << s.x, s.y, s.width, cy, s.color >>
                 /\ Geo(Pieces(i)[2]) = << s.x, s.y + cy, s.width, s.height - cy, s.color >>

\* shape (0,0,100,100) was clicked in its vertical band, too close to the left
\* edge to split there, and became (0,0,100,50) and (0,50,100,50)
C15_Witness ==
    /\ ClickRan
    /\ \E i \in 1..Len(last.prev) :
         /\ last.prev[i].x = 0 /\ last.prev[i].y = 0
         /\ last.prev[i].width = 100 /\ last.prev[i].height = 100
         /\ last.x < 20 /\ last.y = 50
         /\ Len(Pieces(i)) = 2
         /\ Pieces(i)[2].y = 50 /\ Pieces(i)[2].height = 50 /\ Pieces(i)[2].width = 100

\* C16: a nudge of S by click (cx,cy) sets the clone's x to max(0, cx - w - 10)
\* when the center x of S is less than cx and to cx + 10 otherwise, only when
\* the click lies in the vertical band, and y the same way from the center y,
\* cy and h only when it lies in the horizontal band; a coordinate whose band
\* does not hold the click keeps its value, and the corner style is reset.
C16_NudgeCoordinates ==
    ClickRan =>
        \A i \in 1..Len(last.prev) :
            LET s == last.prev[i]
                away(c, origin, size) ==
                    IF 2 * origin + size < 2 * c
                    THEN (IF c - size - 10 > 0 THEN c - size - 10 ELSE 0)
                    ELSE c + 10
            IN
            IsNudge(s, last.x, last.y) =>
                /\ Len(Pieces(i)) = 1
                /\ Pieces(i)[1].x = IF InBand(last.x, s.x, s.width)
                                    THEN away(last.x, s.x, s.width) ELSE s.x
                /\ Pieces(i)[1].y = IF InBand(last.y, s.y, s.height)
                                    THEN away(last.y, s.y, s.height) ELSE s.y
                /\ Pieces(i)[1].borderRadius = "20px"

\* shape (0,0,100,100) was clicked at (5,5) and its clone lies at (15,15)
C16_Witness ==
    /\ ClickRan
    /\ last.x = 5 /\ last.y = 5
    /\ \E i \in 1..Len(last.prev) :
         /\ last.prev[i].x = 0 /\ last.prev[i].y = 0
         /\ last.prev[i].width = 100 /\ last.prev[i].height = 100
         /\ Pieces(i)[1].x = 15 /\ Pieces(i)[1].y = 15

\* a nudge on one axis only kept the other coordinate, and a nudge to the left
\* stopped at 0
C16_WitnessOneAxis ==
    /\ ClickRan
    /\ \E i \in 1..Len(last.prev) :
         /\ IsNudge(last.prev[i], last.x, last.y)
         /\ ~InBand(last.y, last.prev[i].y, last.prev[i].height)
         /\ last.x - last.prev[i].width - 10 < 0
         /\ Pieces(i)[1].x = 0

\* C17: under the event order press, move*, release, click, the one draft
\* exists only in PotentialDraw and Drawing (never while Dragging, never in
\* Idle), its id is the id of no shape of the store while it is a draft, and
\* the release either discards it or appends it to the store exactly once,
\* after which no draft exists.
C17_DraftLifecycle ==
    /\ [](/\ currentPill # null =>
                /\ phase = "pressed"
                /\ ~isDragging /\ draggedPill = null
                /\ currentPill.id \notin IdsOf(pills)
          /\ isDrawing => currentPill # null
          /\ phase # "pressed" => currentPill = null /\ ~isDrawing)
    /\ [][(currentPill # null /\ currentPill' # currentPill) =>
             \/ /\ phase' = "pressed"
                /\ currentPill'.id = currentPill.id
                /\ pills' = pills
             \/ /\ phase' = "released"
                /\ currentPill' = null
                /\ \/ pills' = pills
                   \/ /\ pills' = Append(pills, currentPill)
                      /\ Cardinality({k \in 1..Len(pills') :
                                        pills'[k].id = currentPill.id}) = 1]_vars

\* a release appended the draft to a store that already held shapes
C17_Witness ==
    /\ DrawCommitted
    /\ currentPill = null
    /\ Len(last.prev) >= 1
    /\ Len(pills) = Len(last.prev) + 1
    /\ pills[Len(pills)].id \notin IdsOf(last.prev)

\* a release discarded the draft
C17_WitnessDiscarded ==
    /\ last.op = "release" /\ last.draft /\ ~last.committed
    /\ currentPill = null
    /\ pills = last.prev

\* C18: a deferred reset scheduled by the release of an earlier gesture never
\* clears moved after a newer gesture has set it: once a gesture has moved,
\* moved stays true until its click, and that click observes moved = true and
\* produces no split and no nudge.
C18_StaleResetNeverClearsMoved ==
    /\ [][(phase = "pressed" /\ gestureMoved /\ hasMoved) => hasMoved']_vars
    /\ []((last.op = "click" /\ gestureMoved) =>
              (last.gated /\ pills = last.prev))

\* C19: a nudge displaces the shape away from the click: on every axis on
\* which the click lay in the band of the nudged shape S, the click coordinate
\* is outside the band [origin, origin + size] of the clone.
C19_NudgeLeavesTheClick ==
    ClickRan =>
        \A i \in 1..Len(last.prev) :
            LET s == last.prev[i] IN
            IsNudge(s, last.x, last.y) =>
                /\ Len(Pieces(i)) = 1
                /\ InBand(last.x, s.x, s.width) =>
                       ~InBand(last.x, Pieces(i)[1].x, Pieces(i)[1].width)
                /\ InBand(last.y, s.y, s.height) =>
                       ~InBand(last.y, Pieces(i)[1].y, Pieces(i)[1].height)

\* every shape of the sequence is at least n wide and n high
AtLeast(ps, n) == \A k \in 1..Len(ps) : ps[k].width >= n /\ ps[k].height >= n

\* the two sequences hold shapes of the same widths and heights, one for one
SameSizes(ps, qs) ==
    /\ Len(ps) = Len(qs)
    /\ \A k \in 1..Len(ps) :
         ps[k].width = qs[k].width /\ ps[k].height = qs[k].height

\* C20: in every reachable state, starting from an empty store, every shape of
\* the store is at least 20 wide and 20 high: a draw commit is at least 40 on
\* each axis, every split piece is at least 20 thick on each split axis and
\* keeps the other dimension, and nudge and drag never change width or height.
C20_EveryShapeAtLeastSplitMargin ==
    /\ [](/\ AtLeast(pills, 20)
          /\ ClickRan =>
               \A i \in 1..Len(last.prev) :
                   LET s == last.prev[i]
                       inV == CanSplit(last.x, s.x, s.width)
                       inH == CanSplit(last.y, s.y, s.height)
                   IN /\ \A k \in 1..Len(Pieces(i)) :
                           /\ Pieces(i)[k].width >= 20 /\ Pieces(i)[k].height >= 20
                           /\ ~inV => Pieces(i)[k].width = s.width
                           /\ ~inH => Pieces(i)[k].height = s.height
                      /\ IsNudge(s, last.x, last.y) => SameSizes(Pieces(i), << s >>))
    /\ [][/\ pills' # pills =>
               \/ phase' = "idle"
               \/ phase' = "pressed" /\ isDragging /\ SameSizes(pills', pills)
               \/ /\ phase' = "released"
                  /\ SubSeq(pills', 1, Len(pills)) = pills
                  /\ Len(pills') = Len(pills) + 1
                  /\ AtLeast(<< pills'[Len(pills')] >>, 40)]_vars

\* a vertical split left two pieces 20 wide that kept the height of the shape
C20_Witness ==
    /\ ClickRan
    /\ \E i \in 1..Len(last.prev) :
         /\ IsTwoWay(last.prev[i], last.x, last.y)
         /\ Pieces(i)[1].width = 20 /\ Pieces(i)[2].width = 20
         /\ Pieces(i)[1].height = last.prev[i].height
         /\ Pieces(i)[1].height >= 40

=============================================================================
